---------------------------- MODULE Spec2Model ----------------------------
(***************************************************************************)
(* Authorization engine of the attendance backend: the Casbin manager of   *)
(* app/core/casbin.py (policy store, role edges, check_permission and the  *)
(* administrative pass-throughs), the lazy global of get_casbin_manager,   *)
(* and the matcher functions of app/core/casbin_functions.py.              *)
(*                                                                         *)
(* Strings that the code inspects character by character (resources,      *)
(* actions, attribute values) are sequences of one-character strings;      *)
(* role names and resource types are only compared for equality and are    *)
(* TLA+ strings.                                                           *)
(***************************************************************************)
EXTENDS Integers, Sequences, FiniteSets, TLC

VARIABLES
    store_up,        \* the database behind DATABASE_URL can be reached
    db_p,            \* casbin_rule rows with ptype "p", in table order
    db_g,            \* casbin_rule rows with ptype "g", in table order
    casbin_manager,  \* the module global: "None" or "CasbinManager"
    enforcer,        \* CasbinManager.enforcer: "None" or "Enforcer"
    policy,          \* the enforcer's loaded p rules (a list)
    grouping,        \* the enforcer's loaded g rules (a list)
    last,            \* the last call made on the engine and what it returned
    call,            \* a call of a pure matcher function and its result
    peer             \* a second process on the same table: where it stands
                     \* in its call and its enforcer's loaded rules

vars == <<store_up, db_p, db_g, casbin_manager, enforcer, policy, grouping, last, call, peer>>

engine == <<store_up, db_p, db_g, casbin_manager, enforcer, policy, grouping, last, peer>>

(***************************************************************************)
(* String literals of the source.                                          *)
(***************************************************************************)
S_dashboard == <<"d", "a", "s", "h", "b", "o", "a", "r", "d">>  \* "dashboard"
S_dashboard_admin == <<"d", "a", "s", "h", "b", "o", "a", "r", "d", "-", "a", "d", "m", "i", "n">>  \* "dashboard-admin"
S_settings == <<"s", "e", "t", "t", "i", "n", "g", "s">>  \* "settings"
S_attendance_management == <<"a", "t", "t", "e", "n", "d", "a", "n", "c", "e", "_", "m", "a", "n", "a", "g", "e", "m", "e", "n", "t">>  \* "attendance_management"
S_attendance_view == <<"a", "t", "t", "e", "n", "d", "a", "n", "c", "e", "_", "v", "i", "e", "w">>  \* "attendance_view"
S_read == <<"r", "e", "a", "d">>  \* "read"
S_write == <<"w", "r", "i", "t", "e">>  \* "write"
S_full == <<"f", "u", "l", "l">>  \* "full"
S_limited == <<"l", "i", "m", "i", "t", "e", "d">>  \* "limited"
S_GET == <<"G", "E", "T">>  \* "GET"
S_PUT == <<"P", "U", "T">>  \* "PUT"
S_POST == <<"P", "O", "S", "T">>  \* "POST"
S_api_students_any == <<"/", "a", "p", "i", "/", "v", "1", "/", "s", "t", "u", "d", "e", "n", "t", "s", "/", "*">>  \* "/api/v1/students/*"
S_api_students_42 == <<"/", "a", "p", "i", "/", "v", "1", "/", "s", "t", "u", "d", "e", "n", "t", "s", "/", "4", "2">>  \* "/api/v1/students/42"
S_api_students_ == <<"/", "a", "p", "i", "/", "v", "1", "/", "s", "t", "u", "d", "e", "n", "t", "s", "/">>  \* "/api/v1/students/"
S_api_staff_1 == <<"/", "a", "p", "i", "/", "v", "1", "/", "s", "t", "a", "f", "f", "/", "1">>  \* "/api/v1/staff/1"
S_api_gate_pass_any == <<"/", "a", "p", "i", "/", "v", "1", "/", "g", "a", "t", "e", "-", "p", "a", "s", "s", "/", "*">>  \* "/api/v1/gate-pass/*"
S_api_gate_pass_12 == <<"/", "a", "p", "i", "/", "v", "1", "/", "g", "a", "t", "e", "-", "p", "a", "s", "s", "/", "1", "2">>  \* "/api/v1/gate-pass/12"
S_api_visitors_checkout == <<"/", "a", "p", "i", "/", "v", "1", "/", "s", "e", "c", "u", "r", "i", "t", "y", "/", "v", "i", "s", "i", "t", "o", "r", "s", "/", "*", "/", "c", "h", "e", "c", "k", "o", "u", "t">>  \* "/api/v1/security/visitors/*/checkout"
S_api_visitors_7_checkout == <<"/", "a", "p", "i", "/", "v", "1", "/", "s", "e", "c", "u", "r", "i", "t", "y", "/", "v", "i", "s", "i", "t", "o", "r", "s", "/", "7", "/", "c", "h", "e", "c", "k", "o", "u", "t">>  \* "/api/v1/security/visitors/7/checkout"
S_school_id == <<"s", "c", "h", "o", "o", "l", "_", "i", "d">>  \* "school_id"
S_v5 == <<"5">>  \* "5"
S_v9 == <<"9">>  \* "9"
S_star == <<"*">>  \* "*"

(***************************************************************************)
(* Generic string helpers.                                                 *)
(***************************************************************************)
StrOf(b) == IF b THEN "True" ELSE "False"

StartsWith(s, prefix) ==
    /\ Len(prefix) <= Len(s)
    /\ \A i \in 1..Len(prefix) : s[i] = prefix[i]

EndsWithStar(s) == Len(s) > 0 /\ s[Len(s)] = "*"

Contains(seq, x) == \E i \in 1..Len(seq) : seq[i] = x

Range(seq) == {seq[i] : i \in 1..Len(seq)}

(***************************************************************************)
(* keyMatch2 (casbin_functions.py): every "*" of the pattern is replaced   *)
(* by ".*" and the result is handed to re.match, which matches at the      *)
(* start of the key and does not have to consume it.                       *)
(***************************************************************************)
RECURSIVE replace_star(_)
replace_star(key2) ==
    IF key2 = <<>> THEN <<>>
    ELSE IF Head(key2) = "*" THEN <<".", "*">> \o replace_star(Tail(key2))
    ELSE <<Head(key2)>> \o replace_star(Tail(key2))

\* The atoms of the compiled expression: a character, "." for any
\* character but a newline, each with or without a "*" repetition.
RECURSIVE re_compile(_)
re_compile(pattern) ==
    IF pattern = <<>> THEN <<>>
    ELSE IF Len(pattern) >= 2 /\ pattern[2] = "*"
         THEN <<[c |-> pattern[1], many |-> TRUE]>> \o re_compile(SubSeq(pattern, 3, Len(pattern)))
         ELSE <<[c |-> pattern[1], many |-> FALSE]>> \o re_compile(Tail(pattern))

AtomTakes(atom, ch) == IF atom.c = "." THEN ch # "\n" ELSE ch = atom.c

RECURSIVE re_match_at(_, _, _, _)
re_match_at(atoms, i, s, j) ==
    IF i > Len(atoms) THEN TRUE
    ELSE IF atoms[i].many
         THEN \/ re_match_at(atoms, i + 1, s, j)
              \/ /\ j <= Len(s)
                 /\ AtomTakes(atoms[i], s[j])
                 /\ re_match_at(atoms, i, s, j + 1)
         ELSE /\ j <= Len(s)
              /\ AtomTakes(atoms[i], s[j])
              /\ re_match_at(atoms, i + 1, s, j + 1)

re_match(pattern, s) == re_match_at(re_compile(pattern), 1, s, 1)

keyMatch2(key1, key2) ==
    IF key2 = <<"*">> THEN TRUE
    ELSE re_match(replace_star(key2), key1)

(***************************************************************************)
(* Attribute predicates (casbin_functions.py).                             *)
(***************************************************************************)
Digits == {"0", "1", "2", "3", "4", "5", "6", "7", "8", "9"}

DigitVal(ch) ==
    CASE ch = "0" -> 0 [] ch = "1" -> 1 [] ch = "2" -> 2 [] ch = "3" -> 3
      [] ch = "4" -> 4 [] ch = "5" -> 5 [] ch = "6" -> 6 [] ch = "7" -> 7
      [] ch = "8" -> 8 [] ch = "9" -> 9

AllDigits(s) == Len(s) > 0 /\ \A i \in 1..Len(s) : s[i] \in Digits

RECURSIVE NatOf(_)
NatOf(s) == IF s = <<>> THEN 0 ELSE 10 * NatOf(SubSeq(s, 1, Len(s) - 1)) + DigitVal(s[Len(s)])

RECURSIVE lstrip(_)
lstrip(s) == IF s # <<>> /\ Head(s) = " " THEN lstrip(Tail(s)) ELSE s

RECURSIVE rstrip(_)
rstrip(s) == IF s # <<>> /\ s[Len(s)] = " " THEN rstrip(SubSeq(s, 1, Len(s) - 1)) ELSE s

strip(s) == rstrip(lstrip(s))

\* float(s) for the numerals the model writes: blanks around an optionally
\* signed run of decimal digits.  Anything else raises ValueError.
Unsigned(s) == IF s # <<>> /\ Head(s) \in {"+", "-"} THEN Tail(s) ELSE s

float_ok(s) == AllDigits(Unsigned(strip(s)))

float(s) ==
    IF strip(s) # <<>> /\ Head(strip(s)) = "-"
    THEN 0 - NatOf(Unsigned(strip(s)))
    ELSE NatOf(Unsigned(strip(s)))

\* first index of ch in s at or after position i, 0 when there is none
RECURSIVE find(_, _, _)
find(s, ch, i) ==
    IF i > Len(s) THEN 0
    ELSE IF s[i] = ch THEN i
    ELSE find(s, ch, i + 1)

RECURSIVE split(_, _)
split(s, ch) ==
    IF find(s, ch, 1) = 0 THEN <<s>>
    ELSE <<SubSeq(s, 1, find(s, ch, 1) - 1)>> \o split(SubSeq(s, find(s, ch, 1) + 1, Len(s)), ch)

\* datetime.strptime(s, "%H:%M").time() as minutes since midnight, -1 for
\* ValueError: one or two digits of hour 0..23, ":", one or two digits of
\* minute 0..59.
strptime_HM(s) ==
    LET parts == split(s, ":") IN
    IF /\ Len(parts) = 2
       /\ AllDigits(parts[1]) /\ Len(parts[1]) <= 2 /\ NatOf(parts[1]) <= 23
       /\ AllDigits(parts[2]) /\ Len(parts[2]) <= 2 /\ NatOf(parts[2]) <= 59
    THEN 60 * NatOf(parts[1]) + NatOf(parts[2])
    ELSE -1

\* _matchTimeAttribute without the window that crosses midnight
_matchTimeAttribute_nowrap(policy_attr, request_attr) ==
    LET time_range == SubSeq(policy_attr, 6, Len(policy_attr))
        bounds == split(time_range, "-")
    IN  IF Len(bounds) # 2 THEN FALSE
        ELSE LET start_time == strptime_HM(bounds[1])
                 end_time == strptime_HM(bounds[2])
                 request_time == strptime_HM(request_attr)
             IN  IF start_time < 0 \/ end_time < 0 \/ request_time < 0 THEN FALSE
                 ELSE start_time <= request_time /\ request_time <= end_time

_matchTimeAttribute(policy_attr, request_attr) ==
    LET time_range == SubSeq(policy_attr, 6, Len(policy_attr))
        bounds == split(time_range, "-")
    IN  IF Len(bounds) # 2 THEN FALSE
        ELSE LET start_time == strptime_HM(bounds[1])
                 end_time == strptime_HM(bounds[2])
                 request_time == strptime_HM(request_attr)
             IN  IF start_time < 0 \/ end_time < 0 \/ request_time < 0 THEN FALSE
                 ELSE IF start_time <= end_time
                      THEN start_time <= request_time /\ request_time <= end_time
                      ELSE request_time >= start_time \/ request_time <= end_time

_matchAttribute(policy_attr, request_attr) ==
    IF policy_attr = <<"*">> THEN TRUE
    ELSE IF StartsWith(policy_attr, <<"t", "i", "m", "e", ":">>)
         THEN _matchTimeAttribute(policy_attr, request_attr)
    ELSE IF StartsWith(policy_attr, <<">">>)
         THEN /\ float_ok(request_attr) /\ float_ok(Tail(policy_attr))
              /\ float(request_attr) > float(Tail(policy_attr))
    ELSE IF StartsWith(policy_attr, <<"<">>)
         THEN /\ float_ok(request_attr) /\ float_ok(Tail(policy_attr))
              /\ float(request_attr) < float(Tail(policy_attr))
    ELSE IF StartsWith(policy_attr, <<">", "=">>)
         THEN /\ float_ok(request_attr) /\ float_ok(SubSeq(policy_attr, 3, Len(policy_attr)))
              /\ float(request_attr) >= float(SubSeq(policy_attr, 3, Len(policy_attr)))
    ELSE IF StartsWith(policy_attr, <<"<", "=">>)
         THEN /\ float_ok(request_attr) /\ float_ok(SubSeq(policy_attr, 3, Len(policy_attr)))
              /\ float(request_attr) <= float(SubSeq(policy_attr, 3, Len(policy_attr)))
    ELSE IF find(policy_attr, ",", 1) # 0
         THEN \E i \in 1..Len(split(policy_attr, ",")) :
                  strip(split(policy_attr, ",")[i]) = request_attr
    ELSE policy_attr = request_attr

\* request.get("attr<i>") / policy.get("attr<i>"): None and "" are both falsy
attr(values, i) == IF i \in 1..Len(values) THEN values[i] ELSE <<>>

\* checkAttributes that compares every supplied value, empty predicate positions included
checkAttributes_no_skip(request, policy_attrs) ==
    \A i \in 1..10 :
        attr(request, i) # <<>> => _matchAttribute(attr(policy_attrs, i), attr(request, i))

checkAttributes(request, policy_attrs) ==
    IF \A i \in 1..10 : attr(policy_attrs, i) = <<>> THEN TRUE
    ELSE \A i \in 1..10 :
            (attr(policy_attrs, i) # <<>> /\ attr(request, i) # <<>>)
                => _matchAttribute(attr(policy_attrs, i), attr(request, i))

(***************************************************************************)
(* The bootstrap catalogue of _load_default_policies, in source order.     *)
(* The role edges are complete; of the policy tuples the model keeps the   *)
(* ones below from each of the four lists.                                 *)
(***************************************************************************)
None == "None"

\* the role edges as one chain admin -> teacher -> security -> parent
DefaultRoleEdges_chain ==
    << <<"admin", "teacher">>, <<"teacher", "security">>, <<"security", "parent">>,
       <<"system_developer", "system_admin">>,
       <<"system_admin", "support_agent">>, <<"system_admin", "financial_admin">> >>

\* the first edge with user and role exchanged
DefaultRoleEdges_reversed ==
    << <<"teacher", "admin">>, <<"admin", "security">>, <<"admin", "parent">>,
       <<"teacher", "parent">>,
       <<"system_developer", "system_admin">>,
       <<"system_admin", "support_agent">>, <<"system_admin", "financial_admin">> >>

DefaultRoleEdges ==
    << <<"admin", "teacher">>, <<"admin", "security">>, <<"admin", "parent">>,
       <<"teacher", "parent">>,
       <<"system_developer", "system_admin">>,
       <<"system_admin", "support_agent">>, <<"system_admin", "financial_admin">> >>

\* the static hierarchy that GET /role-hierarchy returns: each role with
\* the roles below it
get_role_hierarchy ==
    [r \in {"system_developer", "system_admin", "admin", "teacher", "support_agent",
            "financial_admin", "security", "parent", "student"} |->
        CASE r = "system_developer" -> <<"system_admin", "support_agent", "financial_admin">>
          [] r = "system_admin" -> <<"support_agent", "financial_admin">>
          [] r = "admin" -> <<"teacher", "security", "parent">>
          [] r = "teacher" -> <<"parent">>
          [] OTHER -> <<>>]

pages ==
    << <<"admin", "page", S_dashboard, S_read>>,
       <<"teacher", "page", S_dashboard, S_read>>,
       <<"parent", "page", S_dashboard, S_read>>,
       <<"security", "page", S_dashboard, S_read>>,
       <<"admin", "page", S_settings, S_read>> >>

features ==
    << <<"admin", "feature", S_attendance_management, S_full>>,
       <<"teacher", "feature", S_attendance_management, S_limited>>,
       <<"parent", "feature", S_attendance_view, S_read>> >>

api_endpoints ==
    << <<"admin", "api", S_api_students_any, S_GET>>,
       <<"teacher", "api", S_api_students_any, S_GET>>,
       <<"security", "api", S_api_gate_pass_any, S_PUT>> >>

security_apis ==
    << <<"security", "api", S_api_visitors_checkout, S_POST>> >>

DefaultPolicies == pages \o features \o api_endpoints \o security_apis

(***************************************************************************)
(* The enforcer's rule lists.  A rule is the list of its fields: a p rule  *)
(* is <<sub, resource type, resource, action>> followed by its attribute   *)
(* predicates, a g rule is <<user, role>>.                                 *)
(***************************************************************************)
\* enforcer.add_policy / add_role_for_user on the loaded list: the rule is
\* appended unless the list has it
add_rule(rules, rule) == IF Contains(rules, rule) THEN rules ELSE Append(rules, rule)

remove_rule(rules, rule) == SelectSeq(rules, LAMBDA r : r # rule)

RECURSIVE add_rules(_, _)
add_rules(rules, new) ==
    IF new = <<>> THEN rules
    ELSE add_rules(add_rule(rules, Head(new)), Tail(new))

\* the roles a principal holds: itself and everything reachable over g rules
RECURSIVE Reach(_, _)
Reach(names, g) ==
    LET more == names \cup {e[2] : e \in {x \in Range(g) : x[1] \in names}}
    IN  IF more = names THEN names ELSE Reach(more, g)

EffectiveRoles(principal, g) == Reach({principal}, g)

\* one allow rule applied to one request (the matcher line of the model file)
Allows(p, rvals, g) ==
    /\ p[2] = rvals[2]
    /\ p[1] \in EffectiveRoles(rvals[1], g)
    /\ keyMatch2(rvals[3], p[3])
    /\ keyMatch2(rvals[4], p[4])
    /\ checkAttributes(SubSeq(rvals, 5, Len(rvals)), SubSeq(p, 5, Len(p)))

\* enforcer.enforce: allow when some loaded rule allows
enforce(p_rules, g, rvals) == \E i \in 1..Len(p_rules) : Allows(p_rules[i], rvals, g)

(***************************************************************************)
(* CasbinManager.                                                          *)
(***************************************************************************)
\* CasbinManager(): __init__, _initialize_enforcer and _load_default_policies.
\* The adapter connects to the store; when that fails the enforcer stays
\* None.  Otherwise the enforcer loads the stored rules, the bootstrap
\* catalogue is added to them and save_policy rewrites the table.
CasbinManager ==
    IF ~store_up
    THEN [enforcer |-> None, policy |-> <<>>, grouping |-> <<>>,
          db_p |-> db_p, db_g |-> db_g]
    ELSE [enforcer |-> "Enforcer",
          policy |-> add_rules(db_p, DefaultPolicies),
          grouping |-> add_rules(db_g, DefaultRoleEdges),
          db_p |-> add_rules(db_p, DefaultPolicies),
          db_g |-> add_rules(db_g, DefaultRoleEdges)]

\* get_casbin_manager that constructs again when the manager has no enforcer
get_casbin_manager_retry ==
    IF casbin_manager = None \/ enforcer = None THEN CasbinManager
    ELSE [enforcer |-> enforcer, policy |-> policy, grouping |-> grouping,
          db_p |-> db_p, db_g |-> db_g]

\* get_casbin_manager(): the global, constructed on first use
get_casbin_manager ==
    IF casbin_manager = None THEN CasbinManager
    ELSE [enforcer |-> enforcer, policy |-> policy, grouping |-> grouping,
          db_p |-> db_p, db_g |-> db_g]

\* attr_list of check_permission: the dict's items in insertion order,
\* flattened to key, str(value), key, str(value), ...
RECURSIVE attr_list(_)
attr_list(attributes) ==
    IF attributes = <<>> THEN <<>>
    ELSE <<Head(attributes)[1], Head(attributes)[2]>> \o attr_list(Tail(attributes))

\* check_permission that decides only principals with a role edge
check_permission_edges_only(m, role, resource_type, resource, action, attributes, eval_fails) ==
    IF m.enforcer = None THEN "False"
    ELSE IF eval_fails THEN "raise"
    ELSE StrOf(/\ \E e \in Range(m.grouping) : e[1] = role
               /\ enforce(m.policy, m.grouping,
                          <<role, resource_type, resource, action>> \o attr_list(attributes)))

\* check_permission that allows when there is no enforcer
check_permission_open(m, role, resource_type, resource, action, attributes, eval_fails) ==
    IF m.enforcer = None THEN "True"
    ELSE IF eval_fails THEN "raise"
    ELSE StrOf(enforce(m.policy, m.grouping,
                       <<role, resource_type, resource, action>> \o attr_list(attributes)))

\* check_permission that takes supplied attributes as already checked
check_permission_attr_open(m, role, resource_type, resource, action, attributes, eval_fails) ==
    IF m.enforcer = None THEN "False"
    ELSE IF eval_fails THEN "raise"
    ELSE IF attributes # <<>> THEN "True"
    ELSE StrOf(enforce(m.policy, m.grouping, <<role, resource_type, resource, action>>))

\* check_permission that does not hand the attributes to the enforcer
check_permission_no_attrs(m, role, resource_type, resource, action, attributes, eval_fails) ==
    IF m.enforcer = None THEN "False"
    ELSE IF eval_fails THEN "raise"
    ELSE StrOf(enforce(m.policy, m.grouping, <<role, resource_type, resource, action>>))

\* check_permission on manager m; eval_fails says that enforce raises
check_permission(m, role, resource_type, resource, action, attributes, eval_fails) ==
    IF m.enforcer = None THEN "False"
    ELSE IF eval_fails THEN "raise"
    ELSE IF attributes # <<>>
         THEN StrOf(enforce(m.policy, m.grouping,
                            <<role, resource_type, resource, action>> \o attr_list(attributes)))
         ELSE StrOf(enforce(m.policy, m.grouping, <<role, resource_type, resource, action>>))

\* A write of rule `rule` to a rule list of manager m (the enforcer's
\* add_policy / add_role_for_user with auto-save): what is returned, the
\* loaded list and the table afterwards.  The enforcer looks the rule up
\* in its loaded list, then has the adapter write the table, which raises
\* when the store is out of reach, and only then changes the loaded list.
add_rule_saved(m, loaded, table, rule) ==
    IF m.enforcer = None THEN [ret |-> "False", loaded |-> loaded, table |-> table]
    ELSE IF Contains(loaded, rule) THEN [ret |-> "False", loaded |-> loaded, table |-> table]
    ELSE IF ~store_up THEN [ret |-> "raise", loaded |-> loaded, table |-> table]
    ELSE [ret |-> "True", loaded |-> Append(loaded, rule), table |-> Append(table, rule)]

remove_rule_saved(m, loaded, table, rule) ==
    IF m.enforcer = None THEN [ret |-> "False", loaded |-> loaded, table |-> table]
    ELSE IF ~Contains(loaded, rule) THEN [ret |-> "False", loaded |-> loaded, table |-> table]
    ELSE IF ~store_up THEN [ret |-> "raise", loaded |-> loaded, table |-> table]
    ELSE [ret |-> "True", loaded |-> remove_rule(loaded, rule),
          table |-> remove_rule(table, rule)]

\* add_policy that does not look the rule up first
add_policy_dup(m, rule) ==
    IF m.enforcer = None THEN [ret |-> "False", loaded |-> m.policy, table |-> m.db_p]
    ELSE IF ~store_up THEN [ret |-> "raise", loaded |-> m.policy, table |-> m.db_p]
    ELSE [ret |-> "True", loaded |-> Append(m.policy, rule), table |-> Append(m.db_p, rule)]

add_policy(m, rule) == add_rule_saved(m, m.policy, m.db_p, rule)

\* remove_policy that deletes the row and keeps the loaded rule
remove_policy_stale(m, rule) ==
    [remove_rule_saved(m, m.policy, m.db_p, rule) EXCEPT !.loaded = m.policy]

remove_policy(m, rule) == remove_rule_saved(m, m.policy, m.db_p, rule)

\* add_user_role that refuses an edge closing a cycle
add_user_role_acyclic(m, user_id, role) ==
    IF user_id \in EffectiveRoles(role, m.grouping)
    THEN [ret |-> "False", loaded |-> m.grouping, table |-> m.db_g]
    ELSE add_rule_saved(m, m.grouping, m.db_g, <<user_id, role>>)

\* add_user_role with user and role exchanged
add_user_role_swapped(m, user_id, role) == add_rule_saved(m, m.grouping, m.db_g, <<role, user_id>>)

add_user_role(m, user_id, role) == add_rule_saved(m, m.grouping, m.db_g, <<user_id, role>>)

remove_user_role(m, user_id, role) == remove_rule_saved(m, m.grouping, m.db_g, <<user_id, role>>)

get_user_roles(m, user_id) ==
    IF m.enforcer = None THEN <<>>
    ELSE LET mine == SelectSeq(m.grouping, LAMBDA e : e[1] = user_id)
         IN  [i \in 1..Len(mine) |-> mine[i][2]]

get_policies(m) == IF m.enforcer = None THEN <<>> ELSE m.policy

(***************************************************************************)
(* Inputs of the calls.                                                    *)
(***************************************************************************)
Principals == {"teacher", "parent", "t1"}

Targets ==
    { <<"page", S_settings, S_read>>,
      <<"page", S_dashboard_admin, S_read>>,
      <<"feature", S_attendance_management, S_limited>>,
      <<"feature", S_attendance_management, S_full>>,
      <<"feature", S_attendance_view, S_read>> }

AttributeInputs == { <<>>, << <<S_school_id, S_v5>> >>, << <<S_school_id, S_v9>> >> }

PolicyInputs ==
    { <<"teacher", "page", S_settings, S_read>>,
      <<"teacher", "feature", S_attendance_management, S_limited>> }

EdgeInputs == { <<"t1", "teacher">>, <<"parent", "admin">> }

\* an evaluation that raises is tried on one role and target, with each of
\* the attribute inputs
FailureInputs(role, target) ==
    IF role = "teacher" /\ target = <<"page", S_settings, S_read>> THEN BOOLEAN ELSE {FALSE}

NoCall == [f |-> "none"]

\* no second process
NoPeer == [pc |-> "none", policy |-> <<>>, grouping |-> <<>>, ret |-> "none"]

Called(op, arg, attributes, ret, after_add, out) ==
    [op |-> op, arg |-> arg, attributes |-> attributes, ret |-> ret,
     after_add |-> after_add, out |-> out]

\* the previous call was a completed add_policy of this rule
AfterAdd(rule) == last.op = "add_policy" /\ last.arg = rule /\ last.ret # "raise"

(***************************************************************************)
(* The state after loading the module, and the calls.  Every call obtains  *)
(* the manager through get_casbin_manager first.                           *)
(***************************************************************************)
Init ==
    /\ store_up \in BOOLEAN
    /\ db_p = <<>>
    /\ db_g = <<>>
    /\ casbin_manager = None
    /\ enforcer = None
    /\ policy = <<>>
    /\ grouping = <<>>
    /\ last = Called("none", <<>>, <<>>, "none", FALSE, <<>>)
    /\ call = NoCall
    /\ peer = NoPeer

Installed(m) ==
    /\ casbin_manager' = "CasbinManager"
    /\ enforcer' = m.enforcer
    /\ policy' = m.policy
    /\ grouping' = m.grouping
    /\ db_p' = m.db_p
    /\ db_g' = m.db_g
    /\ UNCHANGED <<store_up, call, peer>>

GetCasbinManager ==
    /\ Installed(get_casbin_manager)
    /\ last' = Called("get_casbin_manager", <<>>, <<>>, get_casbin_manager.enforcer, FALSE, <<>>)

CheckPermission ==
    LET m == get_casbin_manager IN
    \E role \in Principals, target \in Targets, attributes \in AttributeInputs :
        \E eval_fails \in FailureInputs(role, target) :
            /\ Installed(m)
            /\ last' = Called("check_permission", <<role>> \o target, attributes,
                              check_permission(m, role, target[1], target[2],
                                               target[3], attributes, eval_fails),
                              FALSE, <<>>)

AddPolicy ==
    LET m == get_casbin_manager IN
    \E rule \in PolicyInputs : LET o == add_policy(m, rule) IN
        /\ Installed([m EXCEPT !.policy = o.loaded, !.db_p = o.table])
        /\ last' = Called("add_policy", rule, <<>>, o.ret, AfterAdd(rule), <<>>)

RemovePolicy ==
    LET m == get_casbin_manager IN
    \E rule \in PolicyInputs : LET o == remove_policy(m, rule) IN
        /\ Installed([m EXCEPT !.policy = o.loaded, !.db_p = o.table])
        /\ last' = Called("remove_policy", rule, <<>>, o.ret, AfterAdd(rule), <<>>)

AddUserRole ==
    LET m == get_casbin_manager IN
    \E e \in EdgeInputs : LET o == add_user_role(m, e[1], e[2]) IN
        /\ Installed([m EXCEPT !.grouping = o.loaded, !.db_g = o.table])
        /\ last' = Called("add_user_role", e, <<>>, o.ret, FALSE, <<>>)

RemoveUserRole ==
    LET m == get_casbin_manager IN
    \E e \in EdgeInputs : LET o == remove_user_role(m, e[1], e[2]) IN
        /\ Installed([m EXCEPT !.grouping = o.loaded, !.db_g = o.table])
        /\ last' = Called("remove_user_role", e, <<>>, o.ret, FALSE, <<>>)

GetPolicies ==
    /\ Installed(get_casbin_manager)
    /\ last' = Called("get_policies", <<>>, <<>>, "list", FALSE, get_policies(get_casbin_manager))

GetUserRoles ==
    \E user_id \in Principals :
        /\ Installed(get_casbin_manager)
        /\ last' = Called("get_user_roles", <<user_id>>, <<>>, "list", FALSE,
                          get_user_roles(get_casbin_manager, user_id))

\* the process ends and a new one starts: the global and the enforcer's
\* loaded rules are gone, the table stays
Restart ==
    /\ casbin_manager # None
    /\ casbin_manager' = None
    /\ enforcer' = None
    /\ policy' = <<>>
    /\ grouping' = <<>>
    /\ last' = Called("restart", <<>>, <<>>, "none", FALSE, <<>>)
    /\ UNCHANGED <<store_up, db_p, db_g, call, peer>>

StoreDown ==
    /\ store_up
    /\ store_up' = FALSE
    /\ UNCHANGED <<db_p, db_g, casbin_manager, enforcer, policy, grouping, last, call, peer>>

StoreUp ==
    /\ ~store_up
    /\ store_up' = TRUE
    /\ UNCHANGED <<db_p, db_g, casbin_manager, enforcer, policy, grouping, last, call, peer>>

Next ==
    \/ GetCasbinManager
    \/ CheckPermission
    \/ AddPolicy
    \/ RemovePolicy
    \/ AddUserRole
    \/ RemoveUserRole
    \/ GetPolicies
    \/ GetUserRoles
    \/ Restart
    \/ StoreDown
    \/ StoreUp

Spec == Init /\ [][Next]_vars

(***************************************************************************)
(* A deployment whose table already holds rows written by hand, one of     *)
(* them with attribute predicates (add_policy itself writes four fields).  *)
(***************************************************************************)
SeedPolicies == << <<"parent", "page", S_settings, S_read, S_school_id, S_v5>> >>

InitSeeded ==
    /\ store_up \in BOOLEAN
    /\ db_p = SeedPolicies
    /\ db_g = <<>>
    /\ casbin_manager = None
    /\ enforcer = None
    /\ policy = <<>>
    /\ grouping = <<>>
    /\ last = Called("none", <<>>, <<>>, "none", FALSE, <<>>)
    /\ call = NoCall
    /\ peer = NoPeer

SpecSeeded == InitSeeded /\ [][Next]_vars

(***************************************************************************)
(* The matcher functions called on their own, on every pair of short keys  *)
(* over a small alphabet and on the keys of the catalogue.                 *)
(***************************************************************************)
MaxLen == 2

MatchAlphabet == {"a", "b", ".", "*"}

StringsUpTo(n) == UNION {[1..k -> MatchAlphabet] : k \in 0..n}

MatchKeys ==
    StringsUpTo(MaxLen) \cup
    { S_dashboard, S_dashboard_admin, S_api_students_any, S_api_students_42,
      S_api_students_, S_api_staff_1, S_star,
      S_api_visitors_checkout, S_api_visitors_7_checkout }

InitMatch ==
    /\ store_up = TRUE
    /\ db_p = <<>>
    /\ db_g = <<>>
    /\ casbin_manager = None
    /\ enforcer = None
    /\ policy = <<>>
    /\ grouping = <<>>
    /\ last = Called("none", <<>>, <<>>, "none", FALSE, <<>>)
    /\ call \in [f : {"keyMatch2"}, key1 : MatchKeys, key2 : MatchKeys, out : {"pending"}]
    /\ peer = NoPeer

KeyMatch2Call ==
    /\ call.f = "keyMatch2"
    /\ call.out = "pending"
    /\ call' = [call EXCEPT !.out = StrOf(keyMatch2(call.key1, call.key2))]
    /\ UNCHANGED engine

NextMatch == KeyMatch2Call

SpecMatch == InitMatch /\ [][NextMatch]_vars

(***************************************************************************)
(* A deployment with a gate-pass rule that carries a school_id predicate   *)
(* (a row written by hand) and a principal holding the security role.      *)
(***************************************************************************)
S_user_id == <<"u", "s", "e", "r", "_", "i", "d">>

S_v7 == <<"7">>

GatePolicy == <<"security", "api", S_api_gate_pass_any, S_PUT, S_school_id, S_v5>>

GateTarget == <<"api", S_api_gate_pass_12, S_PUT>>

GatePrincipals == {"guard1", "parent"}

\* attribute dicts in insertion order
GateAttributeInputs ==
    { << <<S_school_id, S_v5>> >>,
      << <<S_school_id, S_v9>> >>,
      << <<S_school_id, S_v5>>, <<S_user_id, S_v7>> >>,
      << <<S_school_id, S_v9>>, <<S_user_id, S_v7>> >>,
      << <<S_user_id, S_v7>>, <<S_school_id, S_v5>> >>,
      << <<S_user_id, S_v7>>, <<S_school_id, S_v9>> >> }

\* the bootstrap rule for the same role, resource and action
GateBootstrapPolicy == <<"security", "api", S_api_gate_pass_any, S_PUT>>

InitGate ==
    /\ store_up \in BOOLEAN
    /\ db_p = <<GatePolicy>>
    /\ db_g = << <<"guard1", "security">> >>
    /\ casbin_manager = None
    /\ enforcer = None
    /\ policy = <<>>
    /\ grouping = <<>>
    /\ last = Called("none", <<>>, <<>>, "none", FALSE, <<>>)
    /\ call = NoCall
    /\ peer = NoPeer

CheckPermissionGate ==
    LET m == get_casbin_manager IN
    \E role \in GatePrincipals, attributes \in GateAttributeInputs :
        /\ Installed(m)
        /\ last' = Called("check_permission", <<role>> \o GateTarget, attributes,
                          check_permission(m, role, GateTarget[1], GateTarget[2],
                                           GateTarget[3], attributes, FALSE),
                          FALSE, <<>>)

AddPolicyGate ==
    LET m == get_casbin_manager
        o == add_policy(m, GateBootstrapPolicy)
    IN  /\ Installed([m EXCEPT !.policy = o.loaded, !.db_p = o.table])
        /\ last' = Called("add_policy", GateBootstrapPolicy, <<>>, o.ret,
                          AfterAdd(GateBootstrapPolicy), <<>>)

RemovePolicyGate ==
    LET m == get_casbin_manager
        o == remove_policy(m, GateBootstrapPolicy)
    IN  /\ Installed([m EXCEPT !.policy = o.loaded, !.db_p = o.table])
        /\ last' = Called("remove_policy", GateBootstrapPolicy, <<>>, o.ret,
                          AfterAdd(GateBootstrapPolicy), <<>>)

NextGate ==
    \/ GetCasbinManager
    \/ CheckPermissionGate
    \/ AddPolicyGate
    \/ RemovePolicyGate
    \/ Restart
    \/ StoreDown
    \/ StoreUp

SpecGate == InitGate /\ [][NextGate]_vars

(***************************************************************************)
(* Two processes on one table.  The second one (another worker, or the     *)
(* init_casbin script) serves one add_policy call: get_casbin_manager      *)
(* constructs its manager, whose Enforcer(model_path, adapter) loads the   *)
(* table and whose _load_default_policies adds the catalogue and has       *)
(* save_policy rewrite the table from the loaded rules; then add_policy    *)
(* runs.  Nothing in the code holds a lock across these steps.             *)
(***************************************************************************)
PeerRule == <<"parent", "page", S_settings, S_read>>

PeerManager ==
    [enforcer |-> "Enforcer", policy |-> peer.policy, grouping |-> peer.grouping,
     db_p |-> db_p, db_g |-> db_g]

InitWriters ==
    /\ store_up = TRUE
    /\ db_p = <<>>
    /\ db_g = <<>>
    /\ casbin_manager = None
    /\ enforcer = None
    /\ policy = <<>>
    /\ grouping = <<>>
    /\ last = Called("none", <<>>, <<>>, "none", FALSE, <<>>)
    /\ call = NoCall
    /\ peer = [NoPeer EXCEPT !.pc = "start"]

\* Enforcer(model_path, adapter): load_policy reads the table
PeerLoad ==
    /\ peer.pc = "start"
    /\ peer' = [peer EXCEPT !.pc = "loaded", !.policy = db_p, !.grouping = db_g]
    /\ UNCHANGED <<store_up, db_p, db_g, casbin_manager, enforcer, policy, grouping, last, call>>

\* _load_default_policies: the catalogue is added to the loaded rules and
\* save_policy replaces the table's rows by the loaded rules
PeerSave ==
    /\ peer.pc = "loaded"
    /\ peer' = [peer EXCEPT !.pc = "ready",
                            !.policy = add_rules(peer.policy, DefaultPolicies),
                            !.grouping = add_rules(peer.grouping, DefaultRoleEdges)]
    /\ db_p' = add_rules(peer.policy, DefaultPolicies)
    /\ db_g' = add_rules(peer.grouping, DefaultRoleEdges)
    /\ UNCHANGED <<store_up, casbin_manager, enforcer, policy, grouping, last, call>>

PeerAddPolicy ==
    /\ peer.pc = "ready"
    /\ LET o == add_policy(PeerManager, PeerRule) IN
           /\ peer' = [peer EXCEPT !.pc = "done", !.policy = o.loaded, !.ret = o.ret]
           /\ db_p' = o.table
    /\ UNCHANGED <<store_up, db_g, casbin_manager, enforcer, policy, grouping, last, call>>

NextWriters ==
    \/ GetCasbinManager
    \/ AddPolicy
    \/ RemovePolicy
    \/ AddUserRole
    \/ RemoveUserRole
    \/ PeerLoad
    \/ PeerSave
    \/ PeerAddPolicy

SpecWriters == InitWriters /\ [][NextWriters]_vars

(***************************************************************************)
(* The attribute evaluator called on its own: _matchAttribute on numeric   *)
(* and time-window predicates, checkAttributes on short attribute lists.   *)
(***************************************************************************)
MaxNum == 3

DigitChar(d) ==
    CASE d = 0 -> "0" [] d = 1 -> "1" [] d = 2 -> "2" [] d = 3 -> "3"
      [] d = 4 -> "4" [] d = 5 -> "5" [] d = 6 -> "6" [] d = 7 -> "7"
      [] d = 8 -> "8" [] d = 9 -> "9"

\* str(n) for 0 <= n <= 99
Numeral(n) ==
    IF n < 10 THEN <<DigitChar(n)>> ELSE <<DigitChar(n \div 10), DigitChar(n % 10)>>

\* "%H:%M" of h hours and m minutes
TimeStr(h, m) ==
    <<DigitChar(h \div 10), DigitChar(h % 10), ":", DigitChar(m \div 10), DigitChar(m % 10)>>

Numbers == (0..MaxNum) \cup {17, 18, 21}

S_abc == <<"a", "b", "c">>

NumericOperators == { <<">", "=">>, <<"<", "=">>, <<">">>, <<"<">> }

NumericPredicates == {op \o Numeral(n) : op \in NumericOperators, n \in Numbers}

NumericValues == {Numeral(n) : n \in Numbers} \cup {S_abc}

ClockHours == {1, 2, 12, 22, 23}

ClockMinutes == {0, 30}

Clock == ClockHours \X ClockMinutes

S_time == <<"t", "i", "m", "e", ":">>

TimeWindow(s, e) == S_time \o TimeStr(s[1], s[2]) \o <<"-">> \o TimeStr(e[1], e[2])

\* windows and times that strptime or the split refuse
MalformedWindows ==
    { S_time \o <<"2", "5", ":", "0", "0", "-", "0", "2", ":", "0", "0">>,
      S_time \o <<"2", "2", ":", "0", "0", "-", "0", "2", "0", "0">>,
      S_time \o <<"2", "2", ":", "0", "0">>,
      S_time \o <<"0", "1", ":", "0", "0", "-", "0", "2", ":", "0", "0", "-", "0", "3", ":", "0", "0">> }

MalformedTimes == { S_abc, <<"2", "4", ":", "0", "0">>, <<"1", "2", "3", "0">>, <<"1", "2", ":", "6", "0">> }

TimePredicates == {TimeWindow(s, e) : s \in Clock, e \in Clock} \cup MalformedWindows

TimeValues == {TimeStr(t[1], t[2]) : t \in Clock} \cup MalformedTimes

AttrValues == { <<>>, S_v5, S_v9 }

AttrLists == UNION {[1..k -> AttrValues] : k \in 0..2}

InitAttr ==
    /\ store_up = TRUE
    /\ db_p = <<>>
    /\ db_g = <<>>
    /\ casbin_manager = None
    /\ enforcer = None
    /\ policy = <<>>
    /\ grouping = <<>>
    /\ last = Called("none", <<>>, <<>>, "none", FALSE, <<>>)
    /\ peer = NoPeer
    /\ \/ call \in [f : {"_matchAttribute"}, policy : {<<p>> : p \in NumericPredicates},
                    request : {<<r>> : r \in NumericValues}, out : {"pending"}]
       \/ call \in [f : {"_matchAttribute"}, policy : {<<p>> : p \in TimePredicates},
                    request : {<<r>> : r \in TimeValues}, out : {"pending"}]
       \/ call \in [f : {"checkAttributes"}, policy : AttrLists,
                    request : AttrLists, out : {"pending"}]

MatchAttributeCall ==
    /\ call.f = "_matchAttribute"
    /\ call.out = "pending"
    /\ call' = [call EXCEPT !.out = StrOf(_matchAttribute(call.policy[1], call.request[1]))]
    /\ UNCHANGED engine

CheckAttributesCall ==
    /\ call.f = "checkAttributes"
    /\ call.out = "pending"
    /\ call' = [call EXCEPT !.out = StrOf(checkAttributes(call.request, call.policy))]
    /\ UNCHANGED engine

NextAttr == MatchAttributeCall \/ CheckAttributesCall

SpecAttr == InitAttr /\ [][NextAttr]_vars

(***************************************************************************)
(* The integrating layer: the routes of endpoints/permissions.py behind    *)
(* require_admin, and the permission_checker dependency of                 *)
(* require_permission (deps.py).  The caller has passed                    *)
(* get_current_active_user; its role is a UserRole value.  A dict is the   *)
(* list of its <<key, value>> items in insertion order.                    *)
(***************************************************************************)
S_user_status == <<"u", "s", "e", "r", "_", "s", "t", "a", "t", "u", "s">>

S_ACTIVE == <<"A", "C", "T", "I", "V", "E">>

S_department == <<"d", "e", "p", "a", "r", "t", "m", "e", "n", "t">>

S_current_time == <<"c", "u", "r", "r", "e", "n", "t", "_", "t", "i", "m", "e">>

S_current_date == <<"c", "u", "r", "r", "e", "n", "t", "_", "d", "a", "t", "e">>

S_date == <<"2", "0", "2", "4", "-", "0", "1", "-", "1", "5">>

UserRole == {"ADMIN", "TEACHER", "PARENT", "SECURITY", "STUDENT"}

\* current_user.role.value.lower()
lower(role) ==
    CASE role = "ADMIN" -> "admin" [] role = "TEACHER" -> "teacher"
      [] role = "PARENT" -> "parent" [] role = "SECURITY" -> "security"
      [] role = "STUDENT" -> "student"

HasKey(dict, key) == \E i \in 1..Len(dict) : dict[i][1] = key

Get(dict, key) == dict[CHOOSE i \in 1..Len(dict) : dict[i][1] = key][2]

Response(status_code, detail, items) ==
    [status_code |-> status_code, detail |-> detail, items |-> items]

\* role_checker of require_role(allowed_roles): the caller passes
role_checker(role, allowed_roles) == role \in allowed_roles

\* require_admin with every role allowed
require_admin_open(role) == role_checker(role, UserRole)

require_admin(role) == role_checker(role, {"ADMIN"})

Forbidden == Response("403", "Operation requires one of these roles", <<"ADMIN">>)

required_fields == <<"role", "resource_type", "resource", "action">>

MissingField(data) == \E i \in 1..Len(required_fields) : ~HasKey(data, required_fields[i])

RuleOf(data) ==
    <<Get(data, "role"), Get(data, "resource_type"), Get(data, "resource"), Get(data, "action")>>

\* the response of a write route for what the manager returned; an
\* exception that leaves the handler is a 500 response
WriteResponse(ret, done, failed) ==
    IF ret = "raise" THEN Response("500", "Internal Server Error", <<>>)
    ELSE IF ret = "False" THEN Response("400", failed, <<>>)
    ELSE Response("200", done, <<>>)

\* the attributes permission_checker builds for the caller
UserAttributes ==
    << <<S_school_id, S_v5>>, <<S_user_id, S_v7>>, <<S_user_status, S_ACTIVE>>,
       <<S_department, <<>>>>, <<S_current_time, TimeStr(12, 0)>>,
       <<S_current_date, S_date>> >>

\* permission_checker that tells a missing enforcer from a denial
permission_checker_leaky(m, role, route, eval_fails) ==
    LET has_permission == check_permission(m, lower(role), route[1], route[2], route[3],
                                           UserAttributes, eval_fails)
    IN  IF has_permission = "raise" THEN Response("500", "Internal Server Error", <<>>)
        ELSE IF m.enforcer = None THEN Response("503", "Authorization store unavailable", route)
        ELSE IF has_permission = "False"
             THEN Response("403", "Access denied. Required permission", route)
        ELSE Response("200", "", <<>>)

\* permission_checker of require_permission(route) for a caller with role
permission_checker(m, role, route, eval_fails) ==
    LET has_permission == check_permission(m, lower(role), route[1], route[2], route[3],
                                           UserAttributes, eval_fails)
    IN  IF has_permission = "raise" THEN Response("500", "Internal Server Error", <<>>)
        ELSE IF has_permission = "False"
             THEN Response("403", "Access denied. Required permission", route)
        ELSE Response("200", "", <<>>)

Callers == {"ADMIN", "TEACHER"}

PolicyData ==
    { << <<"role", "teacher">>, <<"resource_type", "page">>,
         <<"resource", S_settings>>, <<"action", S_read>> >>,
      << <<"role", "">>, <<"resource_type", "page">>,
         <<"resource", S_settings>>, <<"action", S_read>> >>,
      << <<"role", "teacher">>, <<"resource_type", "page">>,
         <<"resource", <<>>>>, <<"action", S_read>> >>,
      << <<"role", "teacher">>, <<"resource_type", "page">>,
         <<"resource", S_settings>> >> }

RoleData == { << <<"role", "teacher">> >>, <<>> }

TestData ==
    { << <<"role", "teacher">>, <<"resource_type", "page">>,
         <<"resource", S_settings>>, <<"action", S_read>> >>,
      << <<"role", "teacher">>, <<"resource_type", "page">>,
         <<"resource", S_dashboard>>, <<"action", S_read>>,
         <<"attributes", << <<S_school_id, S_v5>> >> >> >> }

GuardedRoutes == { <<"page", S_settings, S_read>>, <<"page", S_dashboard, S_read>> }

\* the route answers without reaching get_casbin_manager
Refused(op, caller, data, response) ==
    /\ last' = Called(op, <<caller, data>>, <<>>, response.status_code, FALSE, response)
    /\ UNCHANGED <<store_up, db_p, db_g, casbin_manager, enforcer, policy, grouping, call, peer>>

\* the route has called the manager, which is left as m
Served(op, caller, data, m, response) ==
    /\ Installed(m)
    /\ last' = Called(op, <<caller, data>>, <<>>, response.status_code, FALSE, response)

GetPoliciesRoute ==
    \E caller \in Callers :
        IF ~require_admin(caller) THEN Refused("GET /policies", caller, <<>>, Forbidden)
        ELSE LET m == get_casbin_manager IN
             Served("GET /policies", caller, <<>>, m,
                    Response("200", "", SelectSeq(get_policies(m), LAMBDA p : Len(p) >= 3)))

PostPoliciesRoute ==
    \E caller \in Callers, policy_data \in PolicyData :
        IF ~require_admin(caller) THEN Refused("POST /policies", caller, policy_data, Forbidden)
        ELSE IF MissingField(policy_data)
             THEN Refused("POST /policies", caller, policy_data,
                          Response("400", "Missing required field", <<>>))
        ELSE LET m == get_casbin_manager
                 o == add_policy(m, RuleOf(policy_data))
             IN  Served("POST /policies", caller, policy_data,
                        [m EXCEPT !.policy = o.loaded, !.db_p = o.table],
                        WriteResponse(o.ret, "Policy added successfully", "Failed to add policy"))

DeletePoliciesRoute ==
    \E caller \in Callers, policy_data \in PolicyData :
        IF ~require_admin(caller) THEN Refused("DELETE /policies", caller, policy_data, Forbidden)
        ELSE IF MissingField(policy_data)
             THEN Refused("DELETE /policies", caller, policy_data,
                          Response("400", "Missing required field", <<>>))
        ELSE LET m == get_casbin_manager
                 o == remove_policy(m, RuleOf(policy_data))
             IN  Served("DELETE /policies", caller, policy_data,
                        [m EXCEPT !.policy = o.loaded, !.db_p = o.table],
                        WriteResponse(o.ret, "Policy removed successfully",
                                      "Failed to remove policy"))

GetUserRolesRoute ==
    \E caller \in Callers :
        IF ~require_admin(caller) THEN Refused("GET /user-roles", caller, <<"t1">>, Forbidden)
        ELSE LET m == get_casbin_manager IN
             Served("GET /user-roles", caller, <<"t1">>, m,
                    Response("200", "", get_user_roles(m, "t1")))

PostUserRolesRoute ==
    \E caller \in Callers, role_data \in RoleData :
        IF ~require_admin(caller) THEN Refused("POST /user-roles", caller, role_data, Forbidden)
        ELSE IF ~HasKey(role_data, "role")
             THEN Refused("POST /user-roles", caller, role_data,
                          Response("400", "Missing required field", <<>>))
        ELSE LET m == get_casbin_manager
                 o == add_user_role(m, "t1", Get(role_data, "role"))
             IN  Served("POST /user-roles", caller, role_data,
                        [m EXCEPT !.grouping = o.loaded, !.db_g = o.table],
                        WriteResponse(o.ret, "Role added to user successfully",
                                      "Failed to add role to user"))

DeleteUserRolesRoute ==
    \E caller \in Callers, role_data \in RoleData :
        IF ~require_admin(caller) THEN Refused("DELETE /user-roles", caller, role_data, Forbidden)
        ELSE IF ~HasKey(role_data, "role")
             THEN Refused("DELETE /user-roles", caller, role_data,
                          Response("400", "Missing required field", <<>>))
        ELSE LET m == get_casbin_manager
                 o == remove_user_role(m, "t1", Get(role_data, "role"))
             IN  Served("DELETE /user-roles", caller, role_data,
                        [m EXCEPT !.grouping = o.loaded, !.db_g = o.table],
                        WriteResponse(o.ret, "Role removed from user successfully",
                                      "Failed to remove role from user"))

PostTestPermissionRoute ==
    \E caller \in Callers, test_data \in TestData :
        IF ~require_admin(caller)
        THEN Refused("POST /test-permission", caller, test_data, Forbidden)
        ELSE LET m == get_casbin_manager
                 attributes == IF HasKey(test_data, "attributes")
                               THEN Get(test_data, "attributes") ELSE <<>>
                 has_permission == check_permission(m, Get(test_data, "role"),
                                       Get(test_data, "resource_type"),
                                       Get(test_data, "resource"),
                                       Get(test_data, "action"), attributes, FALSE)
             IN  Served("POST /test-permission", caller, test_data, m,
                        Response("200", "", <<has_permission>>))

\* a route guarded by Depends(require_permission(route))
RequirePermission ==
    \E caller \in Callers, route \in GuardedRoutes, eval_fails \in BOOLEAN :
        LET m == get_casbin_manager
            response == permission_checker(m, caller, route, eval_fails)
        IN  /\ Installed(m)
            /\ last' = Called("require_permission", <<caller, route>>, <<>>,
                              response.status_code, FALSE, response)

NextApi ==
    \/ GetPoliciesRoute
    \/ PostPoliciesRoute
    \/ DeletePoliciesRoute
    \/ GetUserRolesRoute
    \/ PostUserRolesRoute
    \/ DeleteUserRolesRoute
    \/ PostTestPermissionRoute
    \/ RequirePermission
    \/ Restart
    \/ StoreDown
    \/ StoreUp

SpecApi == Init /\ [][NextApi]_vars

(***************************************************************************)
(* Two engine instances over one table.  The second process has loaded     *)
(* its rules when it constructed its manager and answers permission        *)
(* checks from them; nothing in the code reloads an enforcer's rules.      *)
(***************************************************************************)
InstancePrincipals == {"t1", "teacher"}

InstanceTargets == { <<"page", S_settings, S_read>> }

\* the policy and the role edge that the first process grants and revokes
InstanceRule == <<"teacher", "page", S_settings, S_read>>

InstanceEdge == <<"t1", "teacher">>

CheckPermissionInstance ==
    LET m == get_casbin_manager IN
    \E role \in InstancePrincipals, target \in InstanceTargets :
        /\ Installed(m)
        /\ last' = Called("check_permission", <<role>> \o target, <<>>,
                          check_permission(m, role, target[1], target[2], target[3],
                                           <<>>, FALSE),
                          FALSE, <<>>)

AddPolicyInstance ==
    LET m == get_casbin_manager
        o == add_policy(m, InstanceRule)
    IN  /\ Installed([m EXCEPT !.policy = o.loaded, !.db_p = o.table])
        /\ last' = Called("add_policy", InstanceRule, <<>>, o.ret, AfterAdd(InstanceRule), <<>>)

RemovePolicyInstance ==
    LET m == get_casbin_manager
        o == remove_policy(m, InstanceRule)
    IN  /\ Installed([m EXCEPT !.policy = o.loaded, !.db_p = o.table])
        /\ last' = Called("remove_policy", InstanceRule, <<>>, o.ret,
                          AfterAdd(InstanceRule), <<>>)

AddUserRoleInstance ==
    LET m == get_casbin_manager
        o == add_user_role(m, InstanceEdge[1], InstanceEdge[2])
    IN  /\ Installed([m EXCEPT !.grouping = o.loaded, !.db_g = o.table])
        /\ last' = Called("add_user_role", InstanceEdge, <<>>, o.ret, FALSE, <<>>)

RemoveUserRoleInstance ==
    LET m == get_casbin_manager
        o == remove_user_role(m, InstanceEdge[1], InstanceEdge[2])
    IN  /\ Installed([m EXCEPT !.grouping = o.loaded, !.db_g = o.table])
        /\ last' = Called("remove_user_role", InstanceEdge, <<>>, o.ret, FALSE, <<>>)

\* check_permission in the second process
PeerCheckPermission ==
    /\ peer.pc = "ready"
    /\ \E role \in InstancePrincipals, target \in InstanceTargets :
          last' = Called("peer.check_permission", <<role>> \o target, <<>>,
                         check_permission(PeerManager, role, target[1], target[2],
                                          target[3], <<>>, FALSE),
                         FALSE, <<>>)
    /\ UNCHANGED <<store_up, db_p, db_g, casbin_manager, enforcer, policy, grouping,
                   call, peer>>

NextInstances ==
    \/ GetCasbinManager
    \/ CheckPermissionInstance
    \/ AddPolicyInstance
    \/ RemovePolicyInstance
    \/ AddUserRoleInstance
    \/ RemoveUserRoleInstance
    \/ PeerLoad
    \/ PeerSave
    \/ PeerCheckPermission

SpecInstances == InitWriters /\ [][NextInstances]_vars

(***************************************************************************)
(* First calls of get_casbin_manager on worker threads.  permission_checker*)
(* is a plain function, so each request runs it on a thread of the pool;   *)
(* get_casbin_manager takes no lock, and a thread can be switched out      *)
(* between its test of the global, the construction and the assignment.    *)
(* A manager is named after the thread that constructed it.                *)
(***************************************************************************)
Threads == {"worker1", "worker2", "worker3"}

NoManager == [enforcer |-> None, policy |-> <<>>, grouping |-> <<>>]

InitThreads ==
    /\ store_up \in BOOLEAN
    /\ db_p = <<>>
    /\ db_g = <<>>
    /\ casbin_manager = None
    /\ enforcer = None
    /\ policy = <<>>
    /\ grouping = <<>>
    /\ last = Called("none", <<>>, <<>>, "none", FALSE, <<>>)
    /\ peer = NoPeer
    /\ call = [f |-> "get_casbin_manager",
               pc |-> [t \in Threads |-> "call"],
               local |-> [t \in Threads |-> NoManager],
               ret |-> [t \in Threads |-> None],
               constructed |-> {},
               loads |-> 0]

\* if casbin_manager is None:
TestGlobal(t) ==
    /\ call.pc[t] = "call"
    /\ call' = [call EXCEPT !.pc[t] = IF casbin_manager = None THEN "construct" ELSE "return"]
    /\ UNCHANGED engine

\* CasbinManager(): the constructor connects, loads the table, adds the
\* bootstrap catalogue and saves
Construct(t) ==
    /\ call.pc[t] = "construct"
    /\ LET m == CasbinManager IN
           /\ db_p' = m.db_p
           /\ db_g' = m.db_g
           /\ call' = [call EXCEPT !.pc[t] = "assign",
                                   !.local[t] = [enforcer |-> m.enforcer, policy |-> m.policy,
                                                 grouping |-> m.grouping],
                                   !.constructed = @ \cup {t},
                                   !.loads = IF m.enforcer = None THEN @ ELSE @ + 1]
    /\ UNCHANGED <<store_up, casbin_manager, enforcer, policy, grouping, last, peer>>

\* casbin_manager = <the new manager>
AssignGlobal(t) ==
    /\ call.pc[t] = "assign"
    /\ casbin_manager' = t
    /\ enforcer' = call.local[t].enforcer
    /\ policy' = call.local[t].policy
    /\ grouping' = call.local[t].grouping
    /\ call' = [call EXCEPT !.pc[t] = "return"]
    /\ UNCHANGED <<store_up, db_p, db_g, last, peer>>

\* return casbin_manager
ReturnGlobal(t) ==
    /\ call.pc[t] = "return"
    /\ call' = [call EXCEPT !.pc[t] = "done", !.ret[t] = casbin_manager]
    /\ UNCHANGED engine

NextThreads ==
    \/ \E t \in Threads : TestGlobal(t)
    \/ \E t \in Threads : Construct(t)
    \/ \E t \in Threads : AssignGlobal(t)
    \/ \E t \in Threads : ReturnGlobal(t)

SpecThreads == InitThreads /\ [][NextThreads]_vars

(***************************************************************************)
(* Properties.                                                             *)
(***************************************************************************)
\* the manager as the state holds it
Cur == [enforcer |-> enforcer, policy |-> policy, grouping |-> grouping,
        db_p |-> db_p, db_g |-> db_g]

\* what a check_permission call returns in this state when the evaluation
\* itself does not fail
Decide(role, target, attributes) ==
    check_permission(get_casbin_manager, role, target[1], target[2], target[3],
                     attributes, FALSE)

DecideIn(m, role, target, attributes) ==
    check_permission(m, role, target[1], target[2], target[3], attributes, FALSE)

\* rule p is written for a role the principal holds, for the request's
\* resource type, and its resource and action patterns match the request
Applicable(p, role, target, g) ==
    /\ p[2] = target[1]
    /\ p[1] \in EffectiveRoles(role, g)
    /\ keyMatch2(target[2], p[3])
    /\ keyMatch2(target[3], p[4])

\* every predicate of rule p that meets a supplied value accepts it
Satisfied(p, attributes) ==
    \A i \in 1..10 :
        (attr(SubSeq(p, 5, Len(p)), i) # <<>> /\ attr(attr_list(attributes), i) # <<>>)
            => _matchAttribute(attr(SubSeq(p, 5, Len(p)), i), attr(attr_list(attributes), i))

LastTarget == <<last.arg[2], last.arg[3], last.arg[4]>>

C2_FailClosedWithoutEnforcer ==
    /\ get_casbin_manager.enforcer = None =>
          \A role \in Principals, target \in Targets, attributes \in AttributeInputs,
             eval_fails \in BOOLEAN :
              check_permission(get_casbin_manager, role, target[1], target[2], target[3],
                               attributes, eval_fails) = "False"
    /\ (last.op = "check_permission" /\ enforcer = None) => last.ret = "False"

C2_Witness ==
    /\ casbin_manager # None
    /\ enforcer = None
    /\ last.op = "check_permission"
    /\ last.ret = "False"
    /\ \E i \in 1..Len(db_p) : Allows(db_p[i], last.arg \o attr_list(last.attributes), db_g)

\* C3: check_permission never propagates an error: every call returns True
\* or False.
C3_DecideNeverRaises ==
    last.op = "check_permission" => last.ret \in {"True", "False"}

\* C4: check_permission is an OR of ANDs over allow rules.  It returns True
\* exactly when some loaded policy is written for a role the principal
\* holds, has the request's resource type, matching resource and action
\* patterns and satisfied attribute predicates; and an add_policy call never
\* turns an allowed request into a denied one.
C4_AllowedIffSomeRule ==
    \A role \in Principals, target \in Targets, attributes \in AttributeInputs :
        LET m == get_casbin_manager IN
        (Decide(role, target, attributes) = "True")
            <=> (\E i \in 1..Len(m.policy) :
                    /\ Applicable(m.policy[i], role, target, m.grouping)
                    /\ Satisfied(m.policy[i], attributes))

C4_AddKeepsAllowed ==
    last'.op = "add_policy" =>
        \A role \in Principals, target \in Targets, attributes \in AttributeInputs :
            Decide(role, target, attributes) = "True"
                => DecideIn(Cur', role, target, attributes) = "True"

C5_InheritanceTransitive ==
    LET m == get_casbin_manager
        g == Range(m.grouping)
    IN  /\ \A e1 \in g, e2 \in g :
              e1[2] = e2[1] => e2[2] \in EffectiveRoles(e1[1], m.grouping)
        /\ (last.op = "add_user_role" /\ last.ret = "True") =>
              \A e1 \in g :
                  e1[1] = last.arg[2] =>
                      \A i \in 1..Len(m.policy) :
                          (\/ m.policy[i][1] = e1[2]
                           \/ \E e2 \in g : e2[1] = e1[2] /\ m.policy[i][1] = e2[2]) =>
                              Decide(last.arg[1],
                                     <<m.policy[i][2], m.policy[i][3], m.policy[i][4]>>,
                                     <<>>) = "True"

C5_Witness ==
    /\ last.op = "add_user_role"
    /\ last.ret = "True"
    /\ last.arg = <<"t1", "teacher">>
    /\ <<"teacher", "parent">> \in Range(grouping)
    /\ <<"t1", "parent">> \notin Range(grouping)
    /\ Decide("t1", <<"feature", S_attendance_view, S_read>>, <<>>) = "True"

\* C6: role inheritance is directional.  A principal is denied a request
\* when every loaded policy whose patterns match it is written for a role
\* that inherits the principal's role and that the principal does not
\* hold.  With the bootstrap catalogue and no policy or role edge from an
\* administrator, teacher is denied page settings read and allowed feature
\* attendance_management limited but not full, and parent is denied
\* feature attendance_management full; the same holds for a principal
\* whose only edge is to teacher.
Matching(p, target) ==
    /\ p[2] = target[1]
    /\ keyMatch2(target[2], p[3])
    /\ keyMatch2(target[3], p[4])

C6_General ==
    LET m == get_casbin_manager IN
    \A role \in Principals, target \in Targets :
        (/\ \E i \in 1..Len(m.policy) : Matching(m.policy[i], target)
         /\ \A i \in 1..Len(m.policy) :
               Matching(m.policy[i], target) =>
                   /\ role \in EffectiveRoles(m.policy[i][1], m.grouping)
                   /\ m.policy[i][1] \notin EffectiveRoles(role, m.grouping))
            => Decide(role, target, <<>>) = "False"

C6_Bootstrap ==
    LET m == get_casbin_manager IN
    (/\ m.enforcer # None
     /\ Range(m.policy) = Range(DefaultPolicies)
     /\ Range(m.grouping) \cap EdgeInputs \subseteq {<<"t1", "teacher">>})
        => /\ Decide("teacher", <<"page", S_settings, S_read>>, <<>>) = "False"
           /\ Decide("parent", <<"feature", S_attendance_management, S_full>>, <<>>) = "False"
           /\ Decide("teacher", <<"feature", S_attendance_management, S_limited>>, <<>>) = "True"
           /\ Decide("teacher", <<"feature", S_attendance_management, S_full>>, <<>>) = "False"
           /\ <<"t1", "teacher">> \in Range(m.grouping) =>
                 /\ Decide("t1", <<"feature", S_attendance_management, S_limited>>, <<>>) = "True"
                 /\ Decide("t1", <<"feature", S_attendance_management, S_full>>, <<>>) = "False"

C6_InheritanceDirectional == C6_General /\ C6_Bootstrap

C6_Witness ==
    /\ last.op = "check_permission"
    /\ last.arg = <<"t1", "feature", S_attendance_management, S_full>>
    /\ last.ret = "False"
    /\ enforcer # None
    /\ <<"t1", "teacher">> \in Range(grouping)
    /\ <<"admin", "teacher">> \in Range(grouping)
    /\ \E i \in 1..Len(policy) :
          policy[i] = <<"admin", "feature", S_attendance_management, S_full>>
    /\ Decide("t1", <<"feature", S_attendance_management, S_limited>>, <<>>) = "True"

\* C7: add_policy is idempotent and identity keys stay unique.  In every
\* state reached by add_policy, remove_policy and bootstrap loads from an
\* empty table, no two loaded policies and no two rows agree on role,
\* resource type, resource and action; and an add_policy call that follows
\* a completed add_policy of the same tuple returns False and leaves the
\* list of policies as it was.
Key(p) == <<p[1], p[2], p[3], p[4]>>

UniqueKeys(rules) ==
    \A i \in 1..Len(rules), j \in 1..Len(rules) : Key(rules[i]) = Key(rules[j]) => i = j

C7_KeysUnique == UniqueKeys(policy) /\ UniqueKeys(db_p)

C7_SecondAddNoChange ==
    (last'.op = "add_policy" /\ last'.after_add) =>
        /\ last'.ret = "False"
        /\ get_policies(Cur') = get_policies(Cur)
        /\ db_p' = db_p

C7_AddPolicyIdempotent == []C7_KeysUnique /\ [][C7_SecondAddNoChange]_vars

C7_Witness ==
    /\ last.op = "add_policy"
    /\ last.after_add
    /\ last.ret = "False"
    /\ enforcer # None
    /\ Cardinality({i \in 1..Len(policy) : policy[i] = last.arg}) = 1
    /\ last.arg \notin Range(DefaultPolicies)

\* C8: add / remove round trip.  When remove_policy(t) follows a completed
\* add_policy(t) on a manager with an enforcer and completes, it returns
\* True, t is neither among the loaded policies nor in the table, and every
\* request that no policy but t allowed is denied.
C8_RemoveAfterAdd ==
    (/\ last'.op = "remove_policy"
     /\ last'.after_add
     /\ enforcer' # None
     /\ last'.ret # "raise") =>
        /\ last'.ret = "True"
        /\ ~Contains(get_policies(Cur'), last'.arg)
        /\ ~Contains(db_p', last'.arg)
        /\ \A role \in Principals, target \in Targets, attributes \in AttributeInputs :
              (\A i \in 1..Len(policy) :
                    Allows(policy[i], <<role>> \o target \o attr_list(attributes), grouping)
                        => policy[i] = last'.arg)
                  => DecideIn(Cur', role, target, attributes) = "False"

C8_AddRemoveRoundTrip == [][C8_RemoveAfterAdd]_vars

C8_Witness ==
    /\ last.op = "remove_policy"
    /\ last.after_add
    /\ last.ret = "True"
    /\ last.arg = <<"teacher", "page", S_settings, S_read>>
    /\ ~Contains(policy, last.arg)
    /\ Decide("teacher", <<"page", S_settings, S_read>>, <<>>) = "False"

\* C9: trailing-wildcard matching is a prefix match.  For a pattern that
\* ends with "*", keyMatch2 returns True exactly when the candidate starts
\* with the pattern without its last character.
C9_TrailingWildcardIsPrefix ==
    (call.f = "keyMatch2" /\ call.out # "pending" /\ EndsWithStar(call.key2)) =>
        ((call.out = "True")
            <=> StartsWith(call.key1, SubSeq(call.key2, 1, Len(call.key2) - 1)))

\* C10: exact matching without wildcard.  For a pattern that is not "*"
\* and does not end with "*", keyMatch2 returns True exactly when pattern
\* and candidate are the same string.
C10_ExactWithoutWildcard ==
    (call.f = "keyMatch2" /\ call.out # "pending" /\ ~EndsWithStar(call.key2)) =>
        ((call.out = "True") <=> call.key1 = call.key2)

\* C11: numeric comparison predicates.  A completed _matchAttribute call
\* with predicate ">=N" returns True exactly when the request value is a
\* number r with r >= N, with "<=N" exactly when r <= N, with ">N" and
\* "<N" exactly for the strict comparisons, and returns False for the
\* non-numeric value "abc".
C11_NumericPredicates ==
    (call.f = "_matchAttribute" /\ call.out # "pending") =>
        /\ \A n \in Numbers, r \in Numbers :
              call.request = <<Numeral(r)>> =>
                  /\ call.policy = << <<">", "=">> \o Numeral(n) >> => call.out = StrOf(r >= n)
                  /\ call.policy = << <<"<", "=">> \o Numeral(n) >> => call.out = StrOf(r <= n)
                  /\ call.policy = << <<">">> \o Numeral(n) >> => call.out = StrOf(r > n)
                  /\ call.policy = << <<"<">> \o Numeral(n) >> => call.out = StrOf(r < n)
        /\ (call.policy[1] \in NumericPredicates /\ call.request = <<S_abc>>) => call.out = "False"

\* minutes since midnight of a clock time <<h, m>>
Minutes(t) == 60 * t[1] + t[2]

InWindow(s, e, t) ==
    IF Minutes(s) <= Minutes(e)
    THEN Minutes(s) <= Minutes(t) /\ Minutes(t) <= Minutes(e)
    ELSE Minutes(t) >= Minutes(s) \/ Minutes(t) <= Minutes(e)

\* C12: time windows.  A completed _matchAttribute call with predicate
\* "time:S-E" and request time T returns True exactly when S <= T <= E for
\* S <= E, and when T >= S or T <= E for S > E, both ends included; with a
\* malformed window or a malformed request time it returns False.
C12_TimeWindow ==
    (call.f = "_matchAttribute" /\ call.out # "pending") =>
        /\ \A s \in Clock, e \in Clock :
              call.policy = <<TimeWindow(s, e)>> =>
                  \A t \in Clock :
                      call.request = <<TimeStr(t[1], t[2])>> => call.out = StrOf(InWindow(s, e, t))
        /\ (call.policy[1] \in TimePredicates /\ call.request[1] \in MalformedTimes)
               => call.out = "False"
        /\ (call.policy[1] \in MalformedWindows /\ call.request[1] \in TimeValues)
               => call.out = "False"

C12_Witness ==
    /\ call.f = "_matchAttribute"
    /\ call.policy = <<TimeWindow(<<22, 0>>, <<2, 0>>)>>
    /\ call.request = <<TimeStr(23, 30)>>
    /\ call.out = "True"

\* C13: missing context is not a wildcard.  A completed checkAttributes
\* call whose policy has a non-empty predicate at a position where the
\* request supplies nothing (absent or empty) returns False.
C13_MissingContextFails ==
    ( /\ call.f = "checkAttributes"
      /\ call.out # "pending"
      /\ \E i \in 1..10 : attr(call.policy, i) # <<>> /\ attr(call.request, i) = <<>> )
        => call.out = "False"

\* the attribute dict holds key with value
HasAttribute(attributes, key, value) ==
    \E i \in 1..Len(attributes) : attributes[i] = <<key, value>>

\* C14: attribute gating end to end.  Whenever the loaded rules hold the
\* gate-pass rule with the school_id = 5 predicate and guard1 holds the
\* security role, check_permission for guard1 on /api/v1/gate-pass/12 PUT
\* returns True for every attribute input that contains school_id = 5 and
\* False for every attribute input that contains school_id = 9.
C14_AttributeGating ==
    ( /\ enforcer # None
      /\ Contains(policy, GatePolicy)
      /\ "security" \in EffectiveRoles("guard1", grouping) ) =>
        \A attributes \in GateAttributeInputs :
            /\ HasAttribute(attributes, S_school_id, S_v5)
                   => DecideIn(Cur, "guard1", GateTarget, attributes) = "True"
            /\ HasAttribute(attributes, S_school_id, S_v9)
                   => DecideIn(Cur, "guard1", GateTarget, attributes) = "False"

\* C15: grants and revokes survive restarts.  When a restarted process
\* constructs its manager over a table that an earlier process has written,
\* the construction adds to the table and to the loaded rules no policy and
\* no role edge that the table did not hold (a removal stays in effect) and
\* loads every policy and role edge the table held (a grant stays in
\* effect).
C15_ChangesSurviveRestart ==
    [][ ( /\ last.op = "restart"
          /\ casbin_manager = None
          /\ last'.op = "get_casbin_manager"
          /\ enforcer' # None
          /\ db_p # <<>> ) =>
            /\ \A rule \in PolicyInputs :
                  /\ ~Contains(db_p, rule) => ~Contains(db_p', rule) /\ ~Contains(policy', rule)
                  /\ Contains(db_p, rule) => Contains(db_p', rule) /\ Contains(policy', rule)
            /\ \A e \in EdgeInputs :
                  /\ ~Contains(db_g, e) => ~Contains(db_g', e) /\ ~Contains(grouping', e)
                  /\ Contains(db_g, e) => Contains(db_g', e) /\ Contains(grouping', e) ]_vars

\* C16: no lost updates among administrative writes.  The second process
\* makes one write, an add_policy of a tuple the first process never
\* touches, so in every sequential order of the successful writes the
\* first process's latest write decides its tuple: after its successful
\* add_policy or add_user_role the tuple is in the table, after its
\* successful remove_policy or remove_user_role of a tuple outside the
\* bootstrap catalogue it is not, and after the second process's
\* successful add_policy that tuple is in the table.
C16_NoLostUpdate ==
    /\ (last.op = "add_policy" /\ last.ret = "True") => Contains(db_p, last.arg)
    /\ (last.op = "remove_policy" /\ last.ret = "True" /\ ~Contains(DefaultPolicies, last.arg))
           => ~Contains(db_p, last.arg)
    /\ (last.op = "add_user_role" /\ last.ret = "True") => Contains(db_g, last.arg)
    /\ (last.op = "remove_user_role" /\ last.ret = "True") => ~Contains(db_g, last.arg)
    /\ (peer.pc = "done" /\ peer.ret = "True") => Contains(db_p, PeerRule)

AdminRoutes ==
    { "GET /policies", "POST /policies", "DELETE /policies", "GET /user-roles",
      "POST /user-roles", "DELETE /user-roles", "POST /test-permission" }

\* C17: administrative operations are gated.  Every step that answers a
\* route of the permissions router for a caller whose role is not ADMIN
\* answers 403 and leaves the table, the global and the enforcer with its
\* loaded rules as they were (the manager is not even reached).
C17_AdminGated ==
    [][ (last'.op \in AdminRoutes /\ last'.arg[1] # "ADMIN") =>
            /\ last'.ret = "403"
            /\ UNCHANGED <<db_p, db_g, casbin_manager, enforcer, policy, grouping>> ]_vars

C17_Witness ==
    /\ last.op = "POST /policies"
    /\ last.arg[1] = "TEACHER"
    /\ ~MissingField(last.arg[2])
    /\ last.ret = "403"
    /\ store_up
    /\ enforcer # None
    /\ ~Contains(db_p, RuleOf(last.arg[2]))

StoreRoutes == AdminRoutes \ {"POST /test-permission"}

\* the request passes the route's own field checks
WellFormed(op, data) ==
    /\ op \in {"POST /policies", "DELETE /policies"} => ~MissingField(data)
    /\ op \in {"POST /user-roles", "DELETE /user-roles"} => HasKey(data, "role")

\* C18: store unavailability is reported.  Every step that answers a read
\* or write route of the permissions router for an ADMIN caller while the
\* store is out of reach, or on a manager that has no enforcer, answers
\* with a failure that is neither the success response nor the 400 the
\* route gives for a refused request.
C18_StoreUnavailableReported ==
    [][ ( /\ last'.op \in StoreRoutes
          /\ last'.arg[1] = "ADMIN"
          /\ WellFormed(last'.op, last'.arg[2])
          /\ store_up' = store_up
          /\ (~store_up \/ enforcer' = None) ) =>
            last'.ret \notin {"200", "400"} ]_vars

\* the tuple has an empty role or an empty resource
Malformed(data) ==
    /\ ~MissingField(data)
    /\ (Get(data, "role") = "" \/ Get(data, "resource") = <<>>)

\* C19: malformed tuples are rejected.  Every step that answers POST or
\* DELETE /policies for an ADMIN caller with a tuple whose role or resource
\* is empty answers with a failure, and after a POST the tuple is neither
\* in the table nor in the loaded rules.
C19_MalformedRejected ==
    [][ ( /\ last'.op \in {"POST /policies", "DELETE /policies"}
          /\ last'.arg[1] = "ADMIN"
          /\ store_up' = store_up
          /\ Malformed(last'.arg[2]) ) =>
            /\ last'.ret # "200"
            /\ last'.op = "POST /policies" =>
                   /\ ~Contains(db_p', RuleOf(last'.arg[2]))
                   /\ ~Contains(policy', RuleOf(last'.arg[2])) ]_vars

Denied(route) == Response("403", "Access denied. Required permission", route)

\* C20: uniform denial.  In every reachable state and for every caller and
\* guarded route, a false decision is answered by the one 403 response of
\* that route, whether the manager has no enforcer (the store was out of
\* reach) or its loaded rules allow nothing; and every 403 the guard has
\* given is that response.
C20_UniformDenial ==
    /\ \A caller \in Callers, route \in GuardedRoutes :
          LET m == get_casbin_manager IN
          check_permission(m, lower(caller), route[1], route[2], route[3],
                           UserAttributes, FALSE) = "False"
              => permission_checker(m, caller, route, FALSE) = Denied(route)
    /\ (last.op = "require_permission" /\ last.ret = "403") => last.out = Denied(last.arg[2])

C20_Witness ==
    /\ last.op = "require_permission"
    /\ last.ret = "403"
    /\ last.arg = <<"ADMIN", <<"page", S_settings, S_read>>>>
    /\ casbin_manager # None
    /\ enforcer = None

\* the names of the role graph
RoleNames(g) == {e[1] : e \in Range(g)} \cup {e[2] : e \in Range(g)}

\* the transitive closure of a set of edges, one intermediate node at a
\* time (Warshall)
RECURSIVE Closure(_, _)
Closure(R, nodes) ==
    IF nodes = {} THEN R
    ELSE LET k == CHOOSE n \in nodes : TRUE
         IN  Closure(R \cup {<<e1[1], e2[2]>> : e1 \in {x \in R : x[2] = k},
                                                e2 \in {x \in R : x[1] = k}},
                     nodes \ {k})

Reachable(principal, g) ==
    {principal} \cup {e[2] : e \in {x \in Closure(Range(g), RoleNames(g)) : x[1] = principal}}

HasCycle(g) == \E e \in Closure(Range(g), RoleNames(g)) : e[1] = e[2]

\* C21: role resolution ends on a cyclic edge set.  add_user_role makes no
\* cycle check: a call that returns False found no enforcer or found the
\* edge already loaded.  In every reachable state, cyclic ones included,
\* the roles of every principal and every role name are exactly the names
\* reachable from it over the loaded edges, and check_permission returns
\* True or False for every request.
C21_TerminatesOnCycles ==
    /\ (last.op = "add_user_role" /\ last.ret = "False") =>
          (enforcer = None \/ last.arg \in Range(grouping))
    /\ \A principal \in Principals \cup RoleNames(grouping) :
          /\ EffectiveRoles(principal, grouping) = Reachable(principal, grouping)
          /\ \A target \in Targets :
                DecideIn(Cur, principal, target, <<>>) \in {"True", "False"}

C21_Witness ==
    /\ last.op = "add_user_role"
    /\ last.ret = "True"
    /\ last.arg = <<"parent", "admin">>
    /\ HasCycle(grouping)
    /\ EffectiveRoles("parent", grouping) = {"parent", "admin", "teacher", "security"}
    /\ EffectiveRoles("teacher", grouping) = {"parent", "admin", "teacher", "security"}
    /\ DecideIn(Cur, "parent", <<"page", S_settings, S_read>>, <<>>) = "True"

\* C22: a principal holds its own name as a role.  In every reachable
\* state each principal is among its own roles, and with an enforcer a
\* loaded policy without attribute predicates whose role field is the
\* principal's name allows every request its patterns match, whether or
\* not a role edge leaves the principal.
C22_OwnRole ==
    \A principal \in Principals :
        /\ principal \in EffectiveRoles(principal, grouping)
        /\ enforcer # None =>
              \A i \in 1..Len(policy), target \in Targets :
                  (/\ policy[i][1] = principal
                   /\ Len(policy[i]) = 4
                   /\ Matching(policy[i], target)) =>
                      DecideIn(Cur, principal, target, <<>>) = "True"

C22_Witness ==
    /\ last.op = "check_permission"
    /\ last.arg[1] = "parent"
    /\ last.ret = "True"
    /\ enforcer # None
    /\ \A e \in Range(grouping) : e[1] # "parent"
    /\ \E i \in 1..Len(policy) : policy[i][1] = "parent" /\ Matching(policy[i], LastTarget)

\* the pattern has a "*" before its last character, or a "."
InteriorStar(key2) == \E i \in 1..(Len(key2) - 1) : key2[i] = "*"

HasDot(key2) == \E i \in 1..Len(key2) : key2[i] = "."

\* C23: only one trailing "*" is special.  For a pattern with a "*"
\* before its last character or with a ".", keyMatch2 takes every
\* character but a trailing "*" literally: it returns True exactly when
\* the candidate is the pattern itself or, for a pattern ending with "*",
\* starts with the pattern without its last character.
C23_InteriorWildcardLiteral ==
    (/\ call.f = "keyMatch2"
     /\ call.out # "pending"
     /\ (InteriorStar(call.key2) \/ HasDot(call.key2))) =>
        ((call.out = "True")
            <=> IF EndsWithStar(call.key2)
                THEN StartsWith(call.key1, SubSeq(call.key2, 1, Len(call.key2) - 1))
                ELSE call.key1 = call.key2)

\* C24: empty predicate positions are vacuous.  A completed checkAttributes
\* call whose policy has no non-empty predicate returns True for every
\* request, and a call that returns False has a non-empty predicate that
\* the request fails: it supplies nothing at that position or a value the
\* predicate does not accept.
C24_EmptyPredicatesVacuous ==
    (call.f = "checkAttributes" /\ call.out # "pending") =>
        /\ (\A i \in 1..10 : attr(call.policy, i) = <<>>) => call.out = "True"
        /\ call.out = "False" =>
              \E i \in 1..10 :
                  /\ attr(call.policy, i) # <<>>
                  /\ \/ attr(call.request, i) = <<>>
                     \/ ~_matchAttribute(attr(call.policy, i), attr(call.request, i))

C24_Witness ==
    /\ call.f = "checkAttributes"
    /\ call.policy = << <<>>, <<>> >>
    /\ call.request = <<S_v5, S_v9>>
    /\ call.out = "True"

\* C25: check_permission is read-only.  No check_permission call, the
\* first one of a process included, changes the policy table or the
\* role-edge table.
C25_DecideReadOnly ==
    [][ (last' # last /\ last'.op = "check_permission") =>
            (db_p' = db_p /\ db_g' = db_g) ]_vars

\* the two attribute dicts are equal as maps
SameMap(a1, a2) == Range(a1) = Range(a2)

\* C26: check_permission is a function of the loaded rules, the request
\* and the attribute map.  In every reachable state with an enforcer, two
\* attribute dicts that hold the same keys with the same values, in
\* whatever insertion order, get the same result.
C26_DecideDeterministic ==
    enforcer # None =>
        \A role \in GatePrincipals, a1 \in GateAttributeInputs, a2 \in GateAttributeInputs :
            SameMap(a1, a2) =>
                DecideIn(Cur, role, GateTarget, a1) = DecideIn(Cur, role, GateTarget, a2)

\* the loaded role edges are the bootstrap ones: no edge given by an
\* administrator is among them
BootstrapEdgesOnly == enforcer # None /\ \A e \in EdgeInputs : ~Contains(grouping, e)

\* C27 as claimed: after the bootstrap load the role edges form the chains
\* admin -> teacher -> security -> parent and system_developer ->
\* system_admin -> {support_agent, financial_admin}: admin holds teacher,
\* security and parent, teacher holds security and parent, security holds
\* parent, and system_developer holds system_admin, support_agent and
\* financial_admin.
C27_BootstrapChains ==
    BootstrapEdgesOnly =>
        /\ {"teacher", "security", "parent"} \subseteq EffectiveRoles("admin", grouping)
        /\ {"security", "parent"} \subseteq EffectiveRoles("teacher", grouping)
        /\ "parent" \in EffectiveRoles("security", grouping)
        /\ {"system_admin", "support_agent", "financial_admin"}
               \subseteq EffectiveRoles("system_developer", grouping)

\* C27, amended: after the bootstrap load each role holds, besides itself,
\* exactly the roles that GET /role-hierarchy lists below it: admin holds
\* teacher, security and parent, teacher holds parent and not security,
\* security and parent hold no other role, system_developer holds
\* system_admin, support_agent and financial_admin, and system_admin holds
\* support_agent and financial_admin.
C27_BootstrapHierarchy ==
    BootstrapEdgesOnly =>
        /\ \A r \in DOMAIN get_role_hierarchy :
              EffectiveRoles(r, grouping) = {r} \cup Range(get_role_hierarchy[r])
        /\ "security" \notin EffectiveRoles("teacher", grouping)
        /\ "parent" \notin EffectiveRoles("security", grouping)

C27_Witness ==
    /\ last.op = "get_casbin_manager"
    /\ enforcer # None
    /\ grouping = DefaultRoleEdges
    /\ db_g = DefaultRoleEdges
    /\ EffectiveRoles("teacher", grouping) = {"teacher", "parent"}

\* the request of a recorded check_permission call
LastRequest == <<last.arg[1], last.arg[2], last.arg[3], last.arg[4]>>

\* C28: a revocation is visible at once.  A check_permission call that
\* starts right after remove_policy or remove_user_role has returned True,
\* in the process that made the removal or in another process over the
\* same table, returns what the rules of that process without the removed
\* policy or role edge give.
C28_RevocationVisible ==
    [][ /\ ( /\ last.op = "remove_policy"
             /\ last.ret = "True"
             /\ last'.op = "check_permission" ) =>
               last'.ret = StrOf(enforce(remove_rule(policy, last.arg), grouping,
                                         LastRequest'))
        /\ ( /\ last.op = "remove_user_role"
             /\ last.ret = "True"
             /\ last'.op = "check_permission" ) =>
               last'.ret = StrOf(enforce(policy, remove_rule(grouping, last.arg),
                                         LastRequest'))
        /\ ( /\ last.op = "remove_policy"
             /\ last.ret = "True"
             /\ last'.op = "peer.check_permission" ) =>
               last'.ret = StrOf(enforce(remove_rule(peer.policy, last.arg), peer.grouping,
                                         LastRequest'))
        /\ ( /\ last.op = "remove_user_role"
             /\ last.ret = "True"
             /\ last'.op = "peer.check_permission" ) =>
               last'.ret = StrOf(enforce(peer.policy, remove_rule(peer.grouping, last.arg),
                                         LastRequest')) ]_vars

\* C29: one manager per process.  Under every interleaving of first calls
\* of get_casbin_manager from the worker threads, at most one
\* CasbinManager is constructed, the bootstrap load runs at most once, and
\* all callers that have returned hold the same manager.
C29_SingletonUnderConcurrency ==
    call.f = "get_casbin_manager" =>
        /\ Cardinality(call.constructed) <= 1
        /\ call.loads <= 1
        /\ \A t1 \in Threads, t2 \in Threads :
              (call.pc[t1] = "done" /\ call.pc[t2] = "done") => call.ret[t1] = call.ret[t2]

\* the process holds a manager whose construction left the enforcer None
FailedInit == casbin_manager # None /\ enforcer = None

\* every call on the manager the process would get now is refused
AllRefused ==
    LET m == get_casbin_manager IN
    /\ \A role \in Principals, target \in Targets, attributes \in AttributeInputs,
          eval_fails \in BOOLEAN :
          check_permission(m, role, target[1], target[2], target[3], attributes,
                           eval_fails) = "False"
    /\ \A rule \in PolicyInputs :
          add_policy(m, rule).ret = "False" /\ remove_policy(m, rule).ret = "False"
    /\ \A e \in EdgeInputs :
          /\ add_user_role(m, e[1], e[2]).ret = "False"
          /\ remove_user_role(m, e[1], e[2]).ret = "False"
    /\ get_policies(m) = <<>>
    /\ \A user_id \in Principals : get_user_roles(m, user_id) = <<>>

C30_StaysFailed ==
    (FailedInit /\ last'.op # "restart") =>
        /\ FailedInit'
        /\ db_p' = db_p /\ db_g' = db_g
        /\ last' # last =>
              /\ last'.ret \in {"False", "list", None}
              /\ last'.out = <<>>

\* C30: a failed initialisation is permanent for the process.  Once the
\* process holds a manager without an enforcer, every check_permission
\* returns False, every add_policy, remove_policy, add_user_role and
\* remove_user_role returns False, get_policies and get_user_roles return
\* empty lists, whether or not the store is reachable by then; and until
\* the process ends no call gives it an enforcer or changes the tables.
C30_FailedInitPermanent == [](FailedInit => AllRefused) /\ [][C30_StaysFailed]_vars

C30_Witness ==
    /\ FailedInit
    /\ store_up
    /\ Len(db_p) > 0
    /\ last.op = "check_permission"
    /\ last.ret = "False"
    /\ \E i \in 1..Len(db_p) : Allows(db_p[i], last.arg \o attr_list(last.attributes), db_g)

====
